---- MODULE Spec2Model ----
(***************************************************************************)
(* Model of src/vga_buffer.rs: the VGA text-mode Writer (write_byte,       *)
(* write_string, new_line, clear_row), its fmt::Write sink, and the global *)
(* spin-locked WRITER.                                                     *)
(*                                                                         *)
(* Spec          the Writer's public operations, one whole call per step.  *)
(* LockedSpec    callers writing single bytes through WRITER.lock(), one   *)
(*               statement of write_byte per step.                         *)
(* PreemptSpec   the same calls from contexts that preempt one another.    *)
(* ColorSpec     ColorCode::new on every pair of colors.                   *)
(* PrintSpec     whole print! and println! calls.                          *)
(* TextLockSpec  callers printing texts of several bytes, a byte per step. *)
(* LazySpec      the first accesses to the lazily constructed WRITER.      *)
(***************************************************************************)
EXTENDS Integers, Sequences, FiniteSets

(***************************************************************************)
(* Grid dimensions.  The program uses 25 x 80 (vga_buffer.rs:57-58); the   *)
(* model keeps the same code over a smaller grid.                          *)
(***************************************************************************)
BUFFER_HEIGHT == 3
BUFFER_WIDTH == 3

\* Number of Writer calls explored from the initial state (Spec).
MaxSteps == 2

\* Callers of print through the global WRITER, and the number of print calls
\* they make between them (LockedSpec).
NumCallers == 2
MaxCalls == 4
Callers == 1 .. NumCallers

Rows == 0 .. (BUFFER_HEIGHT - 1)
Cols == 0 .. (BUFFER_WIDTH - 1)

(***************************************************************************)
(* Byte values named by the source.                                        *)
(***************************************************************************)
NEWLINE == 10
SPACE == 32
PRINTABLE_LO == 32
PRINTABLE_HI == 126
PLACEHOLDER == 254

Black == 0
LightGray == 7
Yellow == 14

U8 == 256

RECURSIVE BitOr(_, _)
\* a | b on naturals.
BitOr(a, b) ==
    IF a = 0 THEN b
    ELSE IF b = 0 THEN a
    ELSE (IF a % 2 = 1 \/ b % 2 = 1 THEN 1 ELSE 0) + 2 * BitOr(a \div 2, b \div 2)

Shl8_twice(x, n) == (x * (2 ^ (2 * n))) % U8
\* (x as u8) << n
Shl8(x, n) == (x * (2 ^ n)) % U8

ColorCode_new_swapped(foreground, background) ==
    BitOr(Shl8(foreground, 4), background)

\* ColorCode::new
ColorCode_new(foreground, background) == BitOr(Shl8(background, 4), foreground)

\* struct ScreenChar
ScreenChar(ascii_char, color) == [ascii_char |-> ascii_char, color_code |-> color]

(***************************************************************************)
(* s.bytes(): the UTF-8 encoding of a string given as its code points.     *)
(***************************************************************************)
Utf8(cp) ==
    IF cp < 128 THEN << cp >>
    ELSE IF cp < 2048 THEN << 192 + (cp \div 64), 128 + (cp % 64) >>
    ELSE << 224 + (cp \div 4096), 128 + ((cp \div 64) % 64), 128 + (cp % 64) >>

RECURSIVE StrBytes(_)
StrBytes(s) == IF s = << >> THEN << >> ELSE Utf8(Head(s)) \o StrBytes(Tail(s))

VARIABLES
    buffer,           \* Buffer.chars: row -> column -> ScreenChar
    column_position,  \* Writer.column_position
    color_code,       \* Writer.color_code
    panicked,         \* an index went out of bounds: the program has aborted
    rowStore,         \* which cells the store of new_line's inner loop reaches
    last,             \* the last Writer call of Spec: its arguments and pre-state
    steps,            \* number of Writer calls made so far in Spec
    lock,             \* WRITER's spin::Mutex: TRUE while a guard is alive
    pc,               \* where each caller is in its print call
    arg,              \* the byte each caller's call is writing
    local_col,        \* write_byte's local `col` of each caller
    local_color,      \* write_byte's local `color_code` of each caller
    calls,            \* number of print calls started so far in LockedSpec
    line,             \* bytes stored on the bottom row since the last scroll
    rest,             \* bytes each caller's print call has still to write
    serial,           \* the Writer, had the print calls run whole, in lock order
    once,             \* state of the Once that guards WRITER's construction
    built             \* number of times the Writer has been constructed

writerVars == << buffer, column_position, color_code, panicked >>
extraVars == << rest, serial, once, built >>
callVars == << last, steps, extraVars >>
lockVars == << lock, pc, arg, local_col, local_color, calls, line >>
vars == << writerVars, rowStore, callVars, lockVars >>

(***************************************************************************)
(* The store in new_line's inner loop is addressed to chars[row - 1], a    *)
(* whole row, not to chars[row - 1][col].  The source does not say which   *)
(* cells of that row receive the character; a build settles it one way:    *)
(*   "elem"  the cell in the column being read,                            *)
(*   "base"  the cell at the row's address, column 0,                      *)
(*   "fill"  every cell of the row.                                        *)
(***************************************************************************)
RowStores == {"elem", "base", "fill"}

RowWrite(chars, row, col, character) ==
    CASE rowStore = "elem" -> [chars EXCEPT ![row][col] = character]
      [] rowStore = "base" -> [chars EXCEPT ![row][0] = character]
      [] rowStore = "fill" -> [chars EXCEPT ![row] = [c \in Cols |-> character]]

\* The Writer as a value: the fields, the abort flag and the number of
\* new_line calls made by the call in progress.
Self ==
    [buffer |-> buffer, column_position |-> column_position,
     color_code |-> color_code, panicked |-> panicked, scrolls |-> 0]

RECURSIVE new_line_loop(_, _, _)
\* for row in 1..BUFFER_HEIGHT { for col in 0..BUFFER_WIDTH { ... } }
new_line_loop(chars, row, col) ==
    IF row >= BUFFER_HEIGHT THEN chars
    ELSE IF col >= BUFFER_WIDTH THEN new_line_loop(chars, row + 1, 0)
    ELSE LET character == chars[row][col]
         IN  new_line_loop(RowWrite(chars, row - 1, col, character), row, col + 1)

\* Writer::clear_row: builds the blank cell and stores it nowhere.
clear_row(w, row) ==
    LET blank_char == ScreenChar(SPACE, w.color_code)
    IN  w

new_line_keeps_column(w) ==
    LET shifted == [w EXCEPT !.buffer = new_line_loop(w.buffer, 1, 0)]
        cleared == clear_row(shifted, BUFFER_HEIGHT - 1)
    IN  [cleared EXCEPT !.scrolls = @ + 1]

\* Writer::new_line
new_line(w) ==
    LET shifted == [w EXCEPT !.buffer = new_line_loop(w.buffer, 1, 0)]
        cleared == clear_row(shifted, BUFFER_HEIGHT - 1)
    IN  [cleared EXCEPT !.column_position = 0, !.scrolls = @ + 1]

AtLineEnd_late(w) == w.column_position > BUFFER_WIDTH
AtLineEnd_early(w) == w.column_position >= BUFFER_WIDTH - 1
\* The wrap test of write_byte.
AtLineEnd(w) == w.column_position >= BUFFER_WIDTH

WriteRow_above == BUFFER_HEIGHT - 2
\* let row = BUFFER_HEIGHT - 1
WriteRow == BUFFER_HEIGHT - 1

\* Writer::write_byte.  Indexing chars[row][col] out of range panics.
write_byte(w, byte) ==
    IF w.panicked THEN w
    ELSE IF byte = NEWLINE THEN new_line(w)
    ELSE LET w1 == IF AtLineEnd(w) THEN new_line(w) ELSE w
             row == WriteRow
             col == w1.column_position
             color == w1.color_code
         IN  IF row \notin Rows \/ col \notin Cols
             THEN [w1 EXCEPT !.panicked = TRUE]
             ELSE [w1 EXCEPT !.buffer[row][col] = ScreenChar(byte, color),
                             !.column_position = col + 1]

Forwarded_excl(byte) ==
    IF (byte >= PRINTABLE_LO /\ byte < PRINTABLE_HI) \/ byte = NEWLINE
    THEN byte
    ELSE PLACEHOLDER

\* The match of write_string: the byte handed to write_byte.
Forwarded(byte) ==
    IF (byte >= PRINTABLE_LO /\ byte <= PRINTABLE_HI) \/ byte = NEWLINE
    THEN byte
    ELSE PLACEHOLDER

RECURSIVE write_string_loop(_, _)
\* for byte in s.bytes() { ... }
write_string_loop(w, bytes) ==
    IF bytes = << >> THEN w
    ELSE write_string_loop(write_byte(w, Forwarded(Head(bytes))), Tail(bytes))

\* Writer::write_string
write_string(w, s) == write_string_loop(w, StrBytes(s))

\* <Writer as fmt::Write>::write_str: the Writer after the call and the result.
write_str(w, s) == [writer |-> write_string(w, s), result |-> "Ok"]

(***************************************************************************)
(* Inputs.                                                                 *)
(***************************************************************************)
\* Bytes handed to write_byte: a control byte, newline, the ends of the
\* printable range, a letter, DEL and the placeholder.
ByteInputs == {1, NEWLINE, 32, 97, 126, 127, PLACEHOLDER}

\* Code points of the strings: newline, US (0x1F), space, 'a', '~', DEL, e-acute.
CharInputs == {NEWLINE, 31, 32, 97, 126, 127, 233}

Rep(ch, n) == [i \in 1 .. n |-> ch]
Alpha(n) == [i \in 1 .. n |-> 96 + i]

\* The empty string, every one-character string, newline next to text, and
\* lines of exactly BUFFER_WIDTH and BUFFER_WIDTH + 1 printable characters.
StrInputs ==
    {<< >>} \cup {<< ch >> : ch \in CharInputs}
    \cup {<< 97, NEWLINE >>, << NEWLINE, 97 >>, << 233, 97 >>}
    \cup {Rep(97, n) : n \in {BUFFER_WIDTH, BUFFER_WIDTH + 1}}
    \cup {Alpha(n) : n \in {BUFFER_WIDTH, BUFFER_WIDTH + 1}}

(***************************************************************************)
(* The display memory is not initialised by the driver: at construction it *)
(* holds whatever was there.  Two contents are explored: a blank screen    *)
(* and a screen of distinct light-gray characters.                         *)
(***************************************************************************)
BlankBuffer ==
    [r \in Rows |-> [c \in Cols |-> ScreenChar(SPACE, ColorCode_new(Yellow, Black))]]
BootBuffer ==
    [r \in Rows |-> [c \in Cols |->
        ScreenChar(48 + r * BUFFER_WIDTH + c, ColorCode_new(LightGray, Black))]]
InitBuffers == {BlankBuffer, BootBuffer}

NoCall == [op |-> "none", bytes |-> << >>, before |-> << >>, scrolls |-> 0,
           result |-> "none"]

\* lazy_static! WRITER: the Writer as constructed.
Init ==
    /\ buffer \in InitBuffers
    /\ column_position = 0
    /\ color_code = ColorCode_new(Yellow, Black)
    /\ panicked = FALSE
    /\ rowStore \in RowStores
    /\ last = NoCall
    /\ steps = 0
    /\ lock = FALSE
    /\ pc = [p \in Callers |-> "idle"]
    /\ arg = [p \in Callers |-> 0]
    /\ local_col = [p \in Callers |-> 0]
    /\ local_color = [p \in Callers |-> 0]
    /\ calls = 0
    /\ line = << >>
    /\ rest = [p \in Callers |-> << >>]
    /\ serial = Self
    /\ once = "complete"
    /\ built = 1

\* The state after a call that leaves the Writer as w.
Becomes(w) ==
    /\ buffer' = w.buffer
    /\ column_position' = w.column_position
    /\ color_code' = w.color_code
    /\ panicked' = w.panicked

Called(op, bytes, w, result) ==
    /\ last' = [op |-> op, bytes |-> bytes,
                before |-> [buffer |-> buffer, column_position |-> column_position,
                            color_code |-> color_code],
                scrolls |-> w.scrolls, result |-> result]
    /\ steps' = steps + 1
    /\ UNCHANGED << rowStore, lockVars, extraVars >>

CanCall == steps < MaxSteps /\ ~panicked

\* writer.write_byte(byte)
WriteByte ==
    \E byte \in ByteInputs :
        /\ CanCall
        /\ LET w == write_byte(Self, byte)
           IN  Becomes(w) /\ Called("write_byte", << byte >>, w, "unit")

\* writer.write_string(s)
WriteString ==
    \E s \in StrInputs :
        /\ CanCall
        /\ LET w == write_string(Self, s)
           IN  Becomes(w) /\ Called("write_string", StrBytes(s), w, "unit")

\* writer.write_str(s), the fmt::Write sink
WriteStr ==
    \E s \in StrInputs :
        /\ CanCall
        /\ LET r == write_str(Self, s)
           IN  Becomes(r.writer) /\ Called("write_str", StrBytes(s), r.writer, r.result)

Next == WriteByte \/ WriteString \/ WriteStr

Spec == Init /\ [][Next]_vars

(***************************************************************************)
(* LockedSpec: callers printing one byte each through the global WRITER,   *)
(*     WRITER.lock().write_fmt(args).unwrap();                             *)
(* The guard returned by lock() lives to the end of the statement.  Inside *)
(* the lock the statements of write_byte are separate steps, so that what  *)
(* the lock excludes is there to be seen.                                  *)
(***************************************************************************)
\* Bytes of the one-byte strings printed: 'a', DEL and newline.
OneByteStrings == {97, 127, NEWLINE}

Inside == {"write", "read", "store", "advance", "unlock"}

TryLock_blind(held) == TRUE
\* spin::Mutex::lock: the compare-exchange succeeds only on a free lock.
TryLock(held) == held = FALSE

\* print!("{}", c) entered: _print is called with a one-byte string.
CallerPrints(p) ==
    \E byte \in OneByteStrings :
        /\ ~panicked
        /\ pc[p] = "idle"
        /\ calls < MaxCalls
        /\ calls' = calls + 1
        /\ arg' = [arg EXCEPT ![p] = byte]
        /\ pc' = [pc EXCEPT ![p] = "lock"]
        /\ UNCHANGED << writerVars, rowStore, callVars, lock, local_col, local_color, line >>

\* WRITER.lock(): spins until the lock is taken.
Lock(p) ==
    /\ ~panicked
    /\ pc[p] = "lock"
    /\ TryLock(lock)
    /\ lock' = TRUE
    /\ pc' = [pc EXCEPT ![p] = "write"]
    /\ UNCHANGED << writerVars, rowStore, callVars, arg, local_col, local_color, calls, line >>

\* write_str -> write_string -> write_byte, up to the wrap test: the byte is
\* sanitized; a newline, or a full line, scrolls.
Write(p) ==
    /\ ~panicked
    /\ pc[p] = "write"
    /\ LET byte == Forwarded(arg[p])
           scroll == byte = NEWLINE \/ AtLineEnd(Self)
           w == IF scroll THEN new_line(Self) ELSE Self
       IN  /\ Becomes(w)
           /\ line' = IF scroll THEN << >> ELSE line
           /\ pc' = [pc EXCEPT ![p] = IF byte = NEWLINE THEN "unlock" ELSE "read"]
    /\ UNCHANGED << rowStore, callVars, lock, arg, local_col, local_color, calls >>

\* let col = self.column_position; let color_code = self.color_code;
Read(p) ==
    /\ ~panicked
    /\ pc[p] = "read"
    /\ local_col' = [local_col EXCEPT ![p] = column_position]
    /\ local_color' = [local_color EXCEPT ![p] = color_code]
    /\ pc' = [pc EXCEPT ![p] = "store"]
    /\ UNCHANGED << writerVars, rowStore, callVars, lock, arg, calls, line >>

\* self.buffer.chars[row][col].write(ScreenChar { .. }); out of range panics.
Store(p) ==
    /\ ~panicked
    /\ pc[p] = "store"
    /\ IF WriteRow \notin Rows \/ local_col[p] \notin Cols
       THEN /\ panicked' = TRUE
            /\ UNCHANGED << buffer, column_position, color_code, line, pc >>
       ELSE /\ buffer' = [buffer EXCEPT
                             ![WriteRow][local_col[p]] = ScreenChar(Forwarded(arg[p]), local_color[p])]
            /\ line' = Append(line, Forwarded(arg[p]))
            /\ pc' = [pc EXCEPT ![p] = "advance"]
            /\ UNCHANGED << column_position, color_code, panicked >>
    /\ UNCHANGED << rowStore, callVars, lock, arg, local_col, local_color, calls >>

\* self.column_position += 1;
Advance(p) ==
    /\ ~panicked
    /\ pc[p] = "advance"
    /\ column_position' = column_position + 1
    /\ pc' = [pc EXCEPT ![p] = "unlock"]
    /\ UNCHANGED << buffer, color_code, panicked, rowStore, callVars, lock, arg, local_col,
                    local_color, calls, line >>

\* The guard is dropped at the end of the statement.
Unlock(p) ==
    /\ ~panicked
    /\ pc[p] = "unlock"
    /\ lock' = FALSE
    /\ pc' = [pc EXCEPT ![p] = "idle"]
    /\ UNCHANGED << writerVars, rowStore, callVars, arg, local_col, local_color, calls, line >>

LockedNext ==
    \E p \in Callers :
        \/ CallerPrints(p)
        \/ Lock(p)
        \/ Write(p)
        \/ Read(p)
        \/ Store(p)
        \/ Advance(p)
        \/ Unlock(p)

LockedSpec == Init /\ [][LockedNext]_vars

(***************************************************************************)
(* PreemptSpec: the same print calls issued from contexts that preempt one *)
(* another on one processor.  Caller 1 is the normal flow; a caller with a *)
(* higher number is an interrupt-like handler that, once it has started    *)
(* its call, runs until the call returns.  The processor always executes   *)
(* the running context, hence the fairness.                                *)
(***************************************************************************)
\* A context runs only while no context that preempted it is inside a call.
Runnable(p) == \A q \in Callers : q > p => pc[q] = "idle"

PreemptNext ==
    \E p \in Callers :
        \/ Runnable(p) /\ CallerPrints(p)
        \/ Runnable(p) /\ Lock(p)
        \/ Runnable(p) /\ Write(p)
        \/ Runnable(p) /\ Read(p)
        \/ Runnable(p) /\ Store(p)
        \/ Runnable(p) /\ Advance(p)
        \/ Runnable(p) /\ Unlock(p)

PreemptSpec == Init /\ [][PreemptNext]_vars /\ WF_vars(PreemptNext)

(***************************************************************************)
(* ColorSpec: ColorCode::new applied to every pair of Color values.        *)
(***************************************************************************)
\* enum Color: the discriminants 0 (Black) .. 15 (White).
Colors == 0 .. 15

\* ColorCode::new(foreground, background)
MakeColorCode ==
    \E foreground \in Colors : \E background \in Colors :
        /\ steps < MaxSteps
        /\ last' = [op |-> "ColorCode::new", bytes |-> << foreground, background >>,
                    before |-> [buffer |-> buffer, column_position |-> column_position,
                                color_code |-> color_code],
                    scrolls |-> 0,
                    result |-> ColorCode_new(foreground, background)]
        /\ steps' = steps + 1
        /\ UNCHANGED << writerVars, rowStore, lockVars, extraVars >>

ColorNext == MakeColorCode

ColorSpec == Init /\ [][ColorNext]_vars

(***************************************************************************)
(* PrintSpec: whole calls of the print! and println! macros, each          *)
(*     _print(args): WRITER.lock().write_fmt(args).unwrap();               *)
(* write_fmt hands the pieces of the formatted text to write_str in order. *)
(***************************************************************************)
RECURSIVE write_fmt(_, _)
\* fmt::Write::write_fmt: write_str on each piece until one fails.
write_fmt(w, pieces) ==
    IF pieces = << >> THEN [writer |-> w, result |-> "Ok"]
    ELSE LET r == write_str(w, Head(pieces))
         IN  IF r.result = "Ok" THEN write_fmt(r.writer, Tail(pieces)) ELSE r

\* _print: the Writer after the statement; unwrap() panics on an error.
print_fn(w, pieces) ==
    LET r == write_fmt(w, pieces)
    IN  IF r.result = "Ok" THEN r.writer ELSE [r.writer EXCEPT !.panicked = TRUE]

\* print!("{}", s)
print_pieces(s) == << s >>

println_pieces_bare(s) == << s >>
\* println!("{}", s): print!("{}\n", format_args!("{}", s))
println_pieces(s) == << s, << NEWLINE >> >>

RECURSIVE PiecesBytes(_)
PiecesBytes(pieces) ==
    IF pieces = << >> THEN << >>
    ELSE StrBytes(Head(pieces)) \o PiecesBytes(Tail(pieces))

\* The texts printed: the strings of Spec and runs of 2 .. BUFFER_HEIGHT newlines.
TextInputs == StrInputs \cup {Rep(NEWLINE, k) : k \in 2 .. BUFFER_HEIGHT}

\* print!("{}", s): the lock is free on entry and released on return.
PrintCall ==
    \E s \in TextInputs :
        /\ CanCall
        /\ TryLock(lock)
        /\ LET w == print_fn(Self, print_pieces(s))
           IN  Becomes(w) /\ Called("print", PiecesBytes(print_pieces(s)), w, "unit")

\* println!("{}", s)
PrintlnCall ==
    \E s \in TextInputs :
        /\ CanCall
        /\ TryLock(lock)
        /\ LET w == print_fn(Self, println_pieces(s))
           IN  Becomes(w) /\ Called("println", PiecesBytes(println_pieces(s)), w, "unit")

PrintNext == PrintCall \/ PrintlnCall

PrintSpec == Init /\ [][PrintNext]_vars

(***************************************************************************)
(* TextLockSpec: callers printing texts of several bytes through           *)
(*     WRITER.lock().write_fmt(args).unwrap();                             *)
(* one write_byte per step.  The guard is a temporary of the statement: it *)
(* is dropped when write_fmt has returned, i.e. when no byte is left.      *)
(***************************************************************************)
\* The texts printed: "ab", "~\n" and e-acute (two bytes).
PrintedTexts == {<< 97, 98 >>, << 126, NEWLINE >>, << 233 >>}

StatementEnds_eachByte(remaining) == Len(remaining) >= 0
\* Whether the statement, and with it the guard, ends once `remaining` is
\* what is left to write.
StatementEnds(remaining) == remaining = << >>

\* print!("{}", s) entered.
TextCall(p) ==
    \E s \in PrintedTexts :
        /\ ~panicked
        /\ pc[p] = "idle"
        /\ calls < MaxCalls
        /\ calls' = calls + 1
        /\ rest' = [rest EXCEPT ![p] = StrBytes(s)]
        /\ pc' = [pc EXCEPT ![p] = "lock"]
        /\ UNCHANGED << writerVars, rowStore, last, steps, serial, once, built,
                        lock, arg, local_col, local_color, line >>

\* WRITER.lock(); "relock" is a call that took the lock again for the bytes
\* it had left.
TextLock(p) ==
    /\ ~panicked
    /\ pc[p] \in {"lock", "relock"}
    /\ TryLock(lock)
    /\ lock' = TRUE
    /\ serial' = IF pc[p] = "lock" THEN write_string_loop(serial, rest[p]) ELSE serial
    /\ pc' = [pc EXCEPT ![p] = IF rest[p] = << >> THEN "unlock" ELSE "text"]
    /\ UNCHANGED << writerVars, rowStore, last, steps, rest, once, built,
                    arg, local_col, local_color, calls, line >>

\* One turn of write_string's loop: the next byte goes to write_byte.
TextByte(p) ==
    /\ ~panicked
    /\ pc[p] = "text"
    /\ rest[p] # << >>
    /\ Becomes(write_byte(Self, Forwarded(Head(rest[p]))))
    /\ rest' = [rest EXCEPT ![p] = Tail(@)]
    /\ pc' = [pc EXCEPT ![p] =
                 IF StatementEnds(Tail(rest[p])) THEN "unlock" ELSE "text"]
    /\ UNCHANGED << rowStore, last, steps, serial, once, built,
                    lock, arg, local_col, local_color, calls, line >>

\* The guard is dropped.
TextUnlock(p) ==
    /\ ~panicked
    /\ pc[p] = "unlock"
    /\ lock' = FALSE
    /\ pc' = [pc EXCEPT ![p] = IF rest[p] = << >> THEN "idle" ELSE "relock"]
    /\ UNCHANGED << writerVars, rowStore, last, steps, rest, serial, once, built,
                    arg, local_col, local_color, calls, line >>

TextLockNext ==
    \E p \in Callers :
        \/ TextCall(p)
        \/ TextLock(p)
        \/ TextByte(p)
        \/ TextUnlock(p)

TextLockSpec == Init /\ [][TextLockNext]_vars

(***************************************************************************)
(* LazySpec: the first accesses to WRITER.  lazy_static! builds the Writer *)
(* inside a Once on the first dereference: a caller that finds the Once    *)
(* incomplete claims it and runs the initializer, a caller that finds it   *)
(* running spins, and a caller that finds it complete uses the value.      *)
(* Before construction the Writer's fields hold no value; the model keeps  *)
(* 0 in them.  Each call prints one byte, written in one step.             *)
(***************************************************************************)
LazyInit ==
    /\ buffer \in InitBuffers
    /\ column_position = 0
    /\ color_code = 0
    /\ panicked = FALSE
    /\ rowStore \in RowStores
    /\ last = NoCall
    /\ steps = 0
    /\ lock = FALSE
    /\ pc = [p \in Callers |-> "idle"]
    /\ arg = [p \in Callers |-> 0]
    /\ local_col = [p \in Callers |-> 0]
    /\ local_color = [p \in Callers |-> 0]
    /\ calls = 0
    /\ line = << >>
    /\ rest = [p \in Callers |-> << >>]
    /\ serial = Self
    /\ once = "incomplete"
    /\ built = 0

OnceClaim_blind(state) == state # "complete"
\* Once::call_once: the compare-exchange from incomplete to running.
OnceClaim(state) == state = "incomplete"

\* print!("{}", c) entered; WRITER is about to be dereferenced.
LazyCall(p) ==
    \E byte \in OneByteStrings :
        /\ pc[p] = "idle"
        /\ calls < MaxCalls
        /\ calls' = calls + 1
        /\ arg' = [arg EXCEPT ![p] = byte]
        /\ pc' = [pc EXCEPT ![p] = "deref"]
        /\ UNCHANGED << writerVars, rowStore, callVars, lock, local_col, local_color,
                        line >>

\* Dereference of WRITER: use the value if complete, else try to claim the Once.
Deref(p) ==
    /\ pc[p] = "deref"
    /\ IF once = "complete"
       THEN /\ pc' = [pc EXCEPT ![p] = "lock"]
            /\ UNCHANGED once
       ELSE /\ OnceClaim(once)
            /\ once' = "running"
            /\ pc' = [pc EXCEPT ![p] = "init"]
    /\ UNCHANGED << writerVars, rowStore, last, steps, rest, serial, built,
                    lock, arg, local_col, local_color, calls, line >>

\* The initializer: Mutex::new(Writer { column_position: 0, color_code: .. }).
Construct(p) ==
    /\ pc[p] = "init"
    /\ column_position' = 0
    /\ color_code' = ColorCode_new(Yellow, Black)
    /\ lock' = FALSE
    /\ line' = << >>
    /\ built' = built + 1
    /\ once' = "complete"
    /\ pc' = [pc EXCEPT ![p] = "lock"]
    /\ UNCHANGED << buffer, panicked, rowStore, last, steps, rest, serial,
                    arg, local_col, local_color, calls >>

\* write_fmt under the lock: the one byte is written.
LazyWrite(p) ==
    /\ pc[p] = "write"
    /\ LET byte == Forwarded(arg[p])
           w == write_byte(Self, byte)
       IN  /\ Becomes(w)
           /\ line' = IF byte = NEWLINE THEN << >>
                      ELSE IF w.scrolls > 0 THEN << byte >>
                      ELSE Append(line, byte)
    /\ pc' = [pc EXCEPT ![p] = "unlock"]
    /\ UNCHANGED << rowStore, callVars, lock, arg, local_col, local_color, calls >>

LazyNext ==
    \E p \in Callers :
        \/ LazyCall(p)
        \/ Deref(p)
        \/ Construct(p)
        \/ Lock(p)
        \/ LazyWrite(p)
        \/ Unlock(p)

LazySpec == LazyInit /\ [][LazyNext]_vars

(***************************************************************************)
(* Vocabulary of the properties.                                           *)
(***************************************************************************)
Printable == 32 .. 126
Blank(color) == ScreenChar(SPACE, color)
BottomRow == BUFFER_HEIGHT - 1

LastByte == last.bytes[1]
ColumnBefore == last.before.column_position
BufferBefore == last.before.buffer
ColorBefore == last.before.color_code
\* The Writer as it was when the last call started.
WriterBefore ==
    [buffer |-> BufferBefore, column_position |-> ColumnBefore,
     color_code |-> ColorBefore, panicked |-> FALSE, scrolls |-> 0]
\* The Writer as it is now, as the pair the properties compare.
Shown(w) == << w.buffer, w.column_position, w.color_code, w.panicked >>
ShownNow == << buffer, column_position, color_code, panicked >>

WroteByte == last.op = "write_byte"
WroteNewline == WroteByte /\ LastByte = NEWLINE
WroteText == last.op \in {"write_string", "write_str"}

\* C1: new_line() shifts the grid up by one row: each cell (r-1, c) afterwards
\* equals cell (r, c) before, for r in 1..HEIGHT-1, and column_position is 0.
C1_NewLineShiftsUp ==
    WroteNewline =>
        /\ \A r \in 1 .. (BUFFER_HEIGHT - 1) : \A c \in Cols :
               buffer[r - 1][c] = BufferBefore[r][c]
        /\ column_position = 0

\* C2: after every new_line() the bottom row consists entirely of blank cells
\* (space, current color), as clear_row(HEIGHT-1) is to leave it.
C2_BottomRowBlankAfterNewLine ==
    WroteNewline => \A c \in Cols : buffer[BottomRow][c] = Blank(color_code)

\* C3 as stated: for every printable byte b, write_byte(b) places (b, current
\* color) at (HEIGHT-1, column_position_before) and increments column_position
\* by exactly 1.
C3_PlacedAtColumnBefore ==
    (WroteByte /\ LastByte \in Printable) =>
        /\ ColumnBefore \in Cols
        /\ buffer[BottomRow][ColumnBefore] = ScreenChar(LastByte, ColorBefore)
        /\ column_position = ColumnBefore + 1

\* C3 as amended: for every printable byte b, write_byte(b) with
\* column_position_before < WIDTH places (b, current color) at
\* (HEIGHT-1, column_position_before) without scrolling and increments
\* column_position by exactly 1; with column_position_before = WIDTH it scrolls
\* once, places the cell at (HEIGHT-1, 0) and leaves column_position = 1.
C3_PlacedOrWrapped ==
    (WroteByte /\ LastByte \in Printable) =>
        IF ColumnBefore < BUFFER_WIDTH
        THEN /\ last.scrolls = 0
             /\ buffer[BottomRow][ColumnBefore] = ScreenChar(LastByte, ColorBefore)
             /\ column_position = ColumnBefore + 1
        ELSE /\ ColumnBefore = BUFFER_WIDTH
             /\ last.scrolls = 1
             /\ buffer[BottomRow][0] = ScreenChar(LastByte, ColorBefore)
             /\ column_position = 1

\* Witness of C3: a printable byte was written in the middle of the line.
C3_Witness ==
    /\ WroteByte /\ LastByte = 126
    /\ ColumnBefore \in 1 .. (BUFFER_WIDTH - 1)
    /\ buffer[BottomRow][ColumnBefore] = ScreenChar(126, ColorBefore)
    /\ column_position = ColumnBefore + 1

\* C4: for every byte b outside 0x20..=0x7E other than newline, write_byte(b)
\* leaves the same grid and column_position as write_byte(0xFE) from the same
\* starting state.
C4_NonPrintableAsPlaceholder ==
    (WroteByte /\ LastByte \notin Printable /\ LastByte # NEWLINE) =>
        ShownNow = Shown(write_byte(WriterBefore, PLACEHOLDER))

\* Sanitization as the specification words it, byte by byte.
Sanitized(bytes) ==
    [i \in 1 .. Len(bytes) |->
        IF bytes[i] \in Printable \/ bytes[i] = NEWLINE THEN bytes[i] ELSE 254]

RECURSIVE ByteWrites(_, _)
\* write_byte called on each byte of bytes, in order.
ByteWrites(w, bytes) ==
    IF bytes = << >> THEN w ELSE ByteWrites(write_byte(w, Head(bytes)), Tail(bytes))

\* C5: write_string(s) is equivalent to calling write_byte, in order, on each
\* byte of s after sanitization (printable bytes and newline unchanged, every
\* other byte as 0xFE); no byte is dropped or rejected, and the formatting sink
\* reports no error.
C5_WriteStringIsSanitizedByteWrites ==
    WroteText =>
        /\ ShownNow = Shown(ByteWrites(WriterBefore, Sanitized(last.bytes)))
        /\ ~panicked
        /\ last.op = "write_str" => last.result = "Ok"

\* Witness of C5: "éa" (bytes C3 A9 61) was written at the start of a line:
\* two placeholders, then 'a'.
C5_Witness ==
    /\ last.op = "write_string" /\ last.bytes = << 195, 169, 97 >>
    /\ ColumnBefore = 0
    /\ buffer[BottomRow][0] = ScreenChar(254, color_code)
    /\ buffer[BottomRow][1] = ScreenChar(254, color_code)
    /\ buffer[BottomRow][2] = ScreenChar(97, color_code)
    /\ column_position = 3

AllPrintable(bytes) == \A i \in 1 .. Len(bytes) : bytes[i] \in Printable

\* C6: from column_position 0, writing exactly WIDTH printable bytes fills the
\* bottom row left to right with no scroll; writing WIDTH+1 makes exactly one
\* scroll, before the last byte is placed: that byte is at (HEIGHT-1, 0) and
\* column_position is 1.
C6_FillThenWrap ==
    (WroteText /\ ColumnBefore = 0 /\ AllPrintable(last.bytes)) =>
        /\ Len(last.bytes) = BUFFER_WIDTH =>
               /\ last.scrolls = 0
               /\ \A c \in Cols :
                      buffer[BottomRow][c] = ScreenChar(last.bytes[c + 1], ColorBefore)
               /\ column_position = BUFFER_WIDTH
        /\ Len(last.bytes) = BUFFER_WIDTH + 1 =>
               /\ last.scrolls = 1
               /\ buffer[BottomRow][0] =
                      ScreenChar(last.bytes[BUFFER_WIDTH + 1], ColorBefore)
               /\ column_position = 1

\* Witness of C6: a line of WIDTH+1 distinct letters was written from column 0
\* and wrapped.
C6_Witness ==
    /\ last.op = "write_string" /\ last.bytes = Alpha(BUFFER_WIDTH + 1)
    /\ ColumnBefore = 0
    /\ last.scrolls = 1
    /\ buffer[BottomRow][0].ascii_char = 96 + BUFFER_WIDTH + 1
    /\ column_position = 1

\* C7: after WIDTH+1 copies of 'a' written from column 0 onto an empty bottom
\* row, cell (HEIGHT-1, 0) is ('a', current color) and every cell (HEIGHT-1, c),
\* c in 1..WIDTH-1, is blank.
C7_WrappedLineLeavesOneChar ==
    ( /\ WroteText /\ last.bytes = Rep(97, BUFFER_WIDTH + 1)
      /\ ColumnBefore = 0
      /\ \A c \in Cols : BufferBefore[BottomRow][c] = Blank(ColorBefore) ) =>
        /\ buffer[BottomRow][0] = ScreenChar(97, color_code)
        /\ \A c \in 1 .. (BUFFER_WIDTH - 1) : buffer[BottomRow][c] = Blank(color_code)

\* C8: after any sequence of public Writer operations, every cell written by
\* the driver holds a printable byte or the placeholder 0xFE.  The cells of
\* the bottom row left of column_position are the ones write_byte has stored
\* since the last scroll.
C8_CellsPrintableOrPlaceholder ==
    last.op # "none" =>
        \A c \in Cols :
            c < column_position =>
                buffer[BottomRow][c].ascii_char \in Printable \cup {254}

\* C9: column_position stays in [0, WIDTH], no index goes out of range, and the
\* cell a write_byte stores is on row HEIGHT-1 at a column below WIDTH.
C9_ColumnInRange ==
    /\ column_position \in 0 .. BUFFER_WIDTH
    /\ ~panicked
    /\ (WroteByte /\ LastByte # NEWLINE) =>
           /\ (column_position - 1) \in Cols
           /\ buffer[BottomRow][column_position - 1] = ScreenChar(LastByte, ColorBefore)

\* Witness of C9: a byte was written with the line full, and landed in range
\* after the wrap.
C9_Witness ==
    /\ WroteByte /\ LastByte # NEWLINE
    /\ ColumnBefore = BUFFER_WIDTH
    /\ ~panicked
    /\ column_position = 1

\* Callers inside a Writer operation (holding the guard).
InWriter == {p \in Callers : pc[p] \in Inside}

\* C10: writes of concurrent callers through WRITER are serialized: at most one
\* caller is inside a Writer operation; each byte stored since the last scroll
\* occupies its own cell, at its own column, in the order stored; and the cell
\* a call stores holds that call's byte and color at the column that call read.
C10_WritesSerialized ==
    /\ Cardinality(InWriter) <= 1
    /\ ~panicked
    /\ Len(line) <= BUFFER_WIDTH
    /\ \A i \in 1 .. Len(line) : buffer[BottomRow][i - 1].ascii_char = line[i]
    /\ \A p \in Callers :
           /\ pc[p] = "store" => local_col[p] = column_position /\ Len(line) = local_col[p]
           /\ pc[p] = "advance" =>
                  /\ buffer[BottomRow][local_col[p]] = ScreenChar(Forwarded(arg[p]), local_color[p])
                  /\ local_col[p] = column_position
                  /\ Len(line) = local_col[p] + 1
           /\ (pc[p] = "unlock" /\ arg[p] # NEWLINE) =>
                  /\ buffer[BottomRow][local_col[p]] = ScreenChar(Forwarded(arg[p]), local_color[p])
                  /\ column_position = local_col[p] + 1
    /\ (InWriter = {}) => Len(line) = column_position

\* Witness of C10: one caller has stored its byte and holds the lock while
\* another caller, writing a different byte, is waiting for it.
C10_Witness ==
    \E p \in Callers : \E q \in Callers \ {p} :
        /\ pc[p] = "advance" /\ pc[q] = "lock"
        /\ arg[p] = 97 /\ arg[q] = 127
        /\ local_col[p] > 0
        /\ lock

\* A caller is spinning in lock() on a lock whose holder is a context it has
\* preempted: the holder cannot run until the caller returns.
HopelessWait ==
    \E q \in Callers : \E p \in Callers :
        /\ p < q
        /\ pc[q] = "lock"
        /\ pc[p] \in Inside

\* C11: whenever a caller waits for a lock that can never be released, the
\* process reaches an abort state (instead of waiting forever).
C11_HopelessWaitAborts == HopelessWait ~> panicked

\* C15: every print call eventually returns with the lock released, also when
\* issued from a context that preempts a caller holding the lock: a state in
\* which some call has not returned always has a step to take.
C15_PrintCallsReturn ==
    (lock = FALSE /\ \A p \in Callers : pc[p] = "idle") \/ ENABLED PreemptNext

\* C14: for all 16 x 16 pairs of Color values, ColorCode::new(foreground,
\* background) is (background << 4) | foreground, i.e. 16 * background +
\* foreground; it fits in one byte, its high nibble is the background and its
\* low nibble the foreground, and no other pair gives the same code.
C14_ColorCodePacksNibbles ==
    last.op = "ColorCode::new" =>
        LET foreground == last.bytes[1]
            background == last.bytes[2]
            code == last.result
        IN  /\ code = 16 * background + foreground
            /\ code \in 0 .. 255
            /\ code \div 16 = background
            /\ code % 16 = foreground
            /\ \A f \in Colors : \A b \in Colors :
                   ColorCode_new(f, b) = code => (f = foreground /\ b = background)

\* Witness of C14: Yellow (14) on Blue (1) was packed as 0x1E.
C14_Witness ==
    /\ last.op = "ColorCode::new"
    /\ last.bytes = << 14, 1 >>
    /\ last.result = 30

\* The text x of the last print!/println! call, as bytes.
PrintedText ==
    IF last.op = "println" THEN SubSeq(last.bytes, 1, Len(last.bytes) - 1)
    ELSE last.bytes
\* The Writer after the sanitized bytes of x alone are written.
AfterText == ByteWrites(WriterBefore, Sanitized(PrintedText))

\* C13: println(x) leaves the Writer and grid as print(x) followed by print of
\* a single newline does: the text is written, then exactly one more scroll
\* occurs and column_position is 0; print(x) alone appends no newline.
C13_PrintlnIsPrintThenNewline ==
    /\ last.op = "println" =>
           /\ last.bytes # << >>
           /\ last.bytes[Len(last.bytes)] = NEWLINE
           /\ ShownNow = Shown(ByteWrites(AfterText, << NEWLINE >>))
           /\ last.scrolls = AfterText.scrolls + 1
           /\ column_position = 0
    /\ last.op = "print" =>
           /\ ShownNow = Shown(AfterText)
           /\ last.scrolls = AfterText.scrolls

\* Witness of C13: println!("a") on a line that already held text: 'a' was
\* placed, then the line scrolled once and the column went back to 0.
C13_Witness ==
    /\ last.op = "println" /\ PrintedText = << 97 >>
    /\ ColumnBefore \in 1 .. (BUFFER_WIDTH - 1)
    /\ last.scrolls = 1
    /\ buffer[BottomRow][ColumnBefore].ascii_char = 97
    /\ column_position = 0

\* C16: a line of text on the bottom row is found unchanged, in every column,
\* on row HEIGHT-1-k after k further scrolls (by newline or by wrap), for
\* 1 <= k <= HEIGHT-1, and is on no row after HEIGHT scrolls.  The calls
\* looked at are those whose first byte scrolls, so that the line is not
\* written to before it moves.
C16_ScrollKeepsHistory ==
    ( /\ last.op \in {"print", "println"}
      /\ last.bytes # << >>
      /\ (last.bytes[1] = NEWLINE \/ ColumnBefore = BUFFER_WIDTH)
      /\ \E c \in Cols : BufferBefore[BottomRow][c].ascii_char # SPACE ) =>
        LET k == last.scrolls
        IN  /\ (k >= 1 /\ k <= BUFFER_HEIGHT - 1) =>
                   \A c \in Cols :
                       buffer[BottomRow - k][c] = BufferBefore[BottomRow][c]
            /\ k >= BUFFER_HEIGHT =>
                   \A r \in Rows : buffer[r] # BufferBefore[BottomRow]

\* C17: write_byte of a non-newline byte with column_position < WIDTH changes
\* the cell (HEIGHT-1, column_position_before) and column_position, and leaves
\* every other cell of the grid and the current color as they were.
C17_WriteByteFrame ==
    (WroteByte /\ LastByte # NEWLINE /\ ColumnBefore < BUFFER_WIDTH) =>
        /\ \A r \in Rows : \A c \in Cols :
               (r # BottomRow \/ c # ColumnBefore) => buffer[r][c] = BufferBefore[r][c]
        /\ buffer[BottomRow][ColumnBefore] = ScreenChar(LastByte, ColorBefore)
        /\ column_position = ColumnBefore + 1
        /\ color_code = ColorBefore
        /\ last.scrolls = 0

\* Witness of C17: a byte written at the last column of a row of other text:
\* that cell changed, the cell to its left and the top row did not.
C17_Witness ==
    /\ WroteByte /\ LastByte = 127
    /\ ColumnBefore = BUFFER_WIDTH - 1
    /\ buffer[BottomRow][ColumnBefore] # BufferBefore[BottomRow][ColumnBefore]
    /\ buffer[BottomRow][ColumnBefore - 1] = BufferBefore[BottomRow][ColumnBefore - 1]
    /\ buffer[0] = BufferBefore[0]
    /\ buffer[0][0].ascii_char # SPACE

\* C19: the writer's color never changes: color_code is 0x0E in every state,
\* and every cell write_byte has stored (the bottom row left of
\* column_position) carries 0x0E.
C19_ColorIsYellowOnBlack ==
    /\ color_code = 14
    /\ \A c \in Cols :
           c < column_position => buffer[BottomRow][c].color_code = 14

\* Witness of C19: two bytes written over light-gray text: the stored cells are
\* 0x0E, the cell right of them still 0x07.
C19_Witness ==
    /\ last.op = "write_string"
    /\ column_position = 2
    /\ buffer[BottomRow][0].color_code = 14
    /\ buffer[BottomRow][1].color_code = 14
    /\ buffer[BottomRow][2].color_code = 7
    /\ color_code = 14

\* Callers holding the guard in TextLockSpec.
HoldingGuard == {p \in Callers : pc[p] \in {"text", "unlock"}}

\* C18: a print call holds the Writer lock from before its first byte until
\* after its last: at most one call is writing, the lock is given up only by a
\* call with no byte left, and whenever no call is writing the display is the
\* one left by running the calls whole, one after another, in the order they
\* took the lock.
C18_PrintCallsDoNotInterleave ==
    /\ Cardinality(HoldingGuard) <= 1
    /\ HoldingGuard # {} => lock
    /\ \A p \in Callers :
           /\ pc[p] = "unlock" => rest[p] = << >>
           /\ pc[p] # "relock"
    /\ HoldingGuard = {} => ShownNow = Shown(serial)

\* Witness of C18: a caller has written the first byte of "ab" and holds the
\* lock while another, with "~\n" to print, waits for it.
C18_Witness ==
    \E p \in Callers : \E q \in Callers \ {p} :
        /\ pc[p] = "text" /\ rest[p] = << 98 >>
        /\ pc[q] = "lock" /\ rest[q] = << 126, NEWLINE >>
        /\ lock
        /\ column_position > 0
        /\ buffer[BottomRow][column_position - 1].ascii_char = 97

\* Callers that have the Writer in hand (past the dereference of WRITER).
UsingWriter == {p \in Callers : pc[p] \in {"lock", "write", "unlock"}}

\* C12: the global Writer is constructed exactly once, on first access, also
\* when callers race on it; it starts with column_position 0 and color 0x0E;
\* and every later call uses that instance with its accumulated state: the
\* bytes stored since the last scroll are all on the bottom row, and
\* column_position counts them.
C12_ConstructedOnce ==
    /\ built <= 1
    /\ (once = "complete") = (built = 1)
    /\ UsingWriter # {} => once = "complete"
    /\ once = "complete" =>
           /\ color_code = 14
           /\ column_position = Len(line)
           /\ \A i \in 1 .. Len(line) : buffer[BottomRow][i - 1] = ScreenChar(line[i], 14)

\* Witness of C12: two callers raced on the first access; one built the
\* Writer and has printed, the other is using the same Writer, which holds
\* the first caller's byte.
C12_Witness ==
    \E p \in Callers : \E q \in Callers \ {p} :
        /\ built = 1 /\ calls = 2
        /\ pc[p] = "idle" /\ pc[q] = "write"
        /\ column_position = 1
        /\ line = << 97 >>

====
